---- MODULE Spec2Model ----
(***************************************************************************)
(* Front end of eva_gen: the tokenizer (common/front_end/lexer.py), the    *)
(* recursive-descent parser (common/front_end/parser.py) and the AST node  *)
(* model with its visit protocol (common/ast/nodes.py).                    *)
(*                                                                         *)
(* Source text is a sequence of one-character strings.  A LineCol is the   *)
(* record [line, col]; a Span is [start, end]; a Token is <<kind, lexeme>>.*)
(***************************************************************************)
EXTENDS Integers, Sequences, FiniteSets, TLC

VARIABLES
    code,       \* Lexer.code: the source text handed to Lexer / Parser
    rest,       \* Lexer.rest of the tokenizer being iterated
    tokens,     \* the tokens the iteration has produced so far
    lexState,   \* "run" | "stop" (StopIteration) | "error" (ParseError raised)
    lcQuery,    \* last argument of linecol_from_position, -1 before any call
    lcResult,   \* the LineCol it returned
    pc,         \* "start" | "parsed" | "visited"
    tree,       \* the node Parser.parse returned (NoNode before, and on error)
    perr,       \* the ParseError Parser.parse raised (NoErr when none)
    visited,    \* the node visit() was called on (NoNode before)
    log         \* the nodes the recording callback received, in call order

vars == <<code, rest, tokens, lexState, lcQuery, lcResult, pc, tree, perr, visited, log>>

(***************************************************************************)
(* Bounds of the model.                                                    *)
(***************************************************************************)
MaxPieces == 5
MaxInner == 3
MaxLexPieces == 3
MaxTextLen == 5

(***************************************************************************)
(* Character classes of the patterns in TOKENS.                            *)
(***************************************************************************)
Lower == {"a","b","c","d","e","f","g","h","i","j","k","l","m",
          "n","o","p","q","r","s","t","u","v","w","x","y","z"}
Upper == {"A","B","C","D","E","F","G","H","I","J","K","L","M",
          "N","O","P","Q","R","S","T","U","V","W","X","Y","Z"}
Digits == {"0","1","2","3","4","5","6","7","8","9"}
HexDigits == Digits \cup {"A","B","C","D","E","F"}
OctDigits == {"0","1","2","3","4","5","6","7"}
IdentStart == Lower \cup Upper \cup {"_"}
IdentCont == IdentStart \cup Digits
Blank == {" ", "\t", "\n"}

Drop(s, n) == SubSeq(s, n + 1, Len(s))

Min(a, b) == IF a <= b THEN a ELSE b

\* The length of the longest run of characters of S in s that starts at index i
\* (a greedy S* anchored at i).
RECURSIVE RunLen(_, _, _)
RunLen(S, s, i) ==
    IF i <= Len(s) /\ s[i] \in S THEN 1 + RunLen(S, s, i + 1) ELSE 0

\* re.compile(lit).match(s): the length matched, 0 when there is no match.
MatchLit(lit, s) ==
    IF Len(s) >= Len(lit) /\ \A i \in 1..Len(lit) : s[i] = lit[i] THEN Len(lit) ELSE 0

\* [a-zA-Z_][a-zA-Z0-9_]*
MatchIdent(s) ==
    IF Len(s) >= 1 /\ s[1] \in IdentStart THEN 1 + RunLen(IdentCont, s, 2) ELSE 0

\* [0-9]+(\.[0-9]+)?  : greedy digits, then the optional fraction.
MatchDecimal(s) ==
    LET d == RunLen(Digits, s, 1)
        f == IF d + 1 <= Len(s) /\ s[d + 1] = "." THEN RunLen(Digits, s, d + 2) ELSE 0
    IN  IF d = 0 THEN 0 ELSE IF f > 0 THEN d + 1 + f ELSE d

\* 0x[0-9A-F]+
MatchHex(s) ==
    IF MatchLit(<<"0", "x">>, s) > 0 /\ RunLen(HexDigits, s, 3) > 0
    THEN 2 + RunLen(HexDigits, s, 3) ELSE 0

\* 0o[0-7]+
MatchOct(s) ==
    IF MatchLit(<<"0", "o">>, s) > 0 /\ RunLen(OctDigits, s, 3) > 0
    THEN 2 + RunLen(OctDigits, s, 3) ELSE 0

\* ([0-9]+(\.[0-9]+)?|0x[0-9A-F]+|0o[0-7]+): the alternatives of a Python
\* pattern are tried left to right and the first one that matches is taken.
MatchNumber(s) ==
    IF MatchDecimal(s) > 0 THEN MatchDecimal(s)
    ELSE IF MatchHex(s) > 0 THEN MatchHex(s)
    ELSE MatchOct(s)

\* TOKENS: the rules in dictionary (insertion) order, each <<name, pattern>>;
\* a pattern is a literal text, or one of the three patterns with a class.
Lit(text) == <<"lit", text>>

TOKENS ==
    << <<"UNOP",         Lit(<<"n","o","t">>)>>,
       <<"BIN_POWER",    Lit(<<"*","*">>)>>,
       <<"BIN_MULT",     Lit(<<"*">>)>>,
       <<"BIN_DIV",      Lit(<<"/">>)>>,
       <<"BIN_ADD",      Lit(<<"+">>)>>,
       <<"BIN_SUB",      Lit(<<"-">>)>>,
       <<"KW_VAR",       Lit(<<"v","a","r">>)>>,
       <<"KW_FUN",       Lit(<<"f","u","n">>)>>,
       <<"KW_WHILE",     Lit(<<"w","h","i","l","e">>)>>,
       <<"KW_RETURN",    Lit(<<"r","e","t","u","r","n">>)>>,
       <<"KW_EXTERN",    Lit(<<"e","x","t","e","r","n">>)>>,
       <<"IDENT",        <<"ident">> >>,
       <<"NUMBER",       <<"number">> >>,
       <<"EQUALS",       Lit(<<"=">>)>>,
       <<"LESSTHAN",     Lit(<<"<">>)>>,
       <<"LESSEQUAL",    Lit(<<"<","=">>)>>,
       <<"GREATERTHAN",  Lit(<<">">>)>>,
       <<"GREATEREQUAL", Lit(<<">","=">>)>>,
       <<"LEFT_PARENT",  Lit(<<"(">>)>>,
       <<"RIGHT_PARENT", Lit(<<")">>)>>,
       <<"LEFT_BRACE",   Lit(<<"{">>)>>,
       <<"RIGHT_BRACE",  Lit(<<"}">>)>>,
       <<"COMMA",        Lit(<<",">>)>>,
       <<"_IGNORE",      <<"blank">> >> >>

\* pattern.match(s): the length of the anchored match, 0 when none.
Match(pattern, s) ==
    CASE pattern[1] = "lit"    -> MatchLit(pattern[2], s)
      [] pattern[1] = "ident"  -> MatchIdent(s)
      [] pattern[1] = "number" -> MatchNumber(s)
      [] pattern[1] = "blank"  -> RunLen(Blank, s, 1)

\* A tokenizer that prefers the longest match (the earliest rule among equals).
FirstMatchLongest(s) ==
    LET hits == {i \in 1..Len(TOKENS) : Match(TOKENS[i][2], s) > 0}
    IN  IF hits = {} THEN 0
        ELSE CHOOSE i \in hits :
                \A j \in hits :
                    \/ Match(TOKENS[i][2], s) > Match(TOKENS[j][2], s)
                    \/ Match(TOKENS[i][2], s) = Match(TOKENS[j][2], s) /\ i <= j

\* The for loop of Lexer.__next__: the index in TOKENS of the first rule, in
\* the order of TOKENS, whose pattern matches at the start of s; 0 when no
\* rule matches.
FirstMatch(s) ==
    LET hits == {i \in 1..Len(TOKENS) : Match(TOKENS[i][2], s) > 0}
    IN  IF hits = {} THEN 0 ELSE CHOOSE i \in hits : \A j \in hits : i <= j

\* Lexer.__next__ on a lexer whose rest is r.  The result is
\* [status, token, rest]: status "tok" with the token returned, "stop" for
\* StopIteration, "error" for the ParseError; rest is Lexer.rest afterwards
\* (Lexer.position is always len(code) - len(rest)).
RECURSIVE LexerNext(_)

\* The body of "if m and m.start(0) == 0" for rule k, which matched n characters.
Matched(r, k, n) ==
    IF k = "_IGNORE"
    THEN LexerNext(Drop(r, n))
    ELSE [status |-> "tok", token |-> <<k, SubSeq(r, 1, n)>>, rest |-> Drop(r, n)]

\* One pass of the while loop: i is the first matching rule, 0 when there is none.
Scan(r, i) ==
    IF i = 0
    THEN [status |-> "error", token |-> <<"_ERR", <<>> >>, rest |-> r]
    ELSE Matched(r, TOKENS[i][1], Match(TOKENS[i][2], r))

LexerNext(r) ==
    IF Len(r) = 0
    THEN [status |-> "stop", token |-> <<"_EOI", <<>> >>, rest |-> r]
    ELSE Scan(r, FirstMatch(r))

(***************************************************************************)
(* Position resolver.                                                      *)
(***************************************************************************)
\* The index of the first "\n" of s at or after index i, 0 when there is none.
FindNewline(s) ==
    LET hits == {i \in 1..Len(s) : s[i] = "\n"}
    IN  IF hits = {} THEN 0 ELSE CHOOSE i \in hits : \A j \in hits : i <= j

\* str.split("\n")
RECURSIVE Split(_)
Split(s) ==
    LET i == FindNewline(s)
    IN  IF i = 0 THEN <<s>> ELSE <<SubSeq(s, 1, i - 1)>> \o Split(Drop(s, i))

\* The for loop of linecol_from_position, entered at lines[i] (1-based, so the
\* code's i + 1 is i here) with the running curpos.
RECURSIVE LinecolScan(_, _, _, _)
LinecolScan(lines, i, curpos, position) ==
    IF i > Len(lines)
    THEN [line |-> Len(lines), col |-> Len(lines[Len(lines)])]
    ELSE IF curpos + Len(lines[i]) >= position
         THEN [line |-> i, col |-> position - curpos + 1]
         ELSE LinecolScan(lines, i + 1, curpos + Len(lines[i]), position)

\* Lexer.linecol_from_position
linecol_from_position(text, position) ==
    LinecolScan(Split(text), 1, 0, position)

(***************************************************************************)
(* AST nodes (common/ast/nodes.py).  A node is a record with its class in  *)
(* "type" and the attributes its __init__ sets.                            *)
(***************************************************************************)
NoNode == [type |-> "None"]

Span(start, end) == [start |-> start, end |-> end]

DigitValue(c) ==
    CASE c = "0" -> 0 [] c = "1" -> 1 [] c = "2" -> 2 [] c = "3" -> 3 [] c = "4" -> 4
      [] c = "5" -> 5 [] c = "6" -> 6 [] c = "7" -> 7 [] c = "8" -> 8 [] c = "9" -> 9

\* The integer written by the decimal digits ds.
RECURSIVE DecimalValue(_)
DecimalValue(ds) ==
    IF Len(ds) = 0 THEN 0
    ELSE 10 * DecimalValue(SubSeq(ds, 1, Len(ds) - 1)) + DigitValue(ds[Len(ds)])

\* The number num / 10^scale in lowest decimal terms.
RECURSIVE Normalise(_, _)
Normalise(num, scale) ==
    IF scale > 0 /\ num % 10 = 0 THEN Normalise(num \div 10, scale - 1)
    ELSE [num |-> num, scale |-> scale]

\* float(value) for a NUMBER lexeme digits[.digits]: the value as num / 10^scale.
Float(value) ==
    LET d == RunLen(Digits, value, 1)
        digits == SubSeq(value, 1, d) \o Drop(value, Min(d + 1, Len(value)))
    IN  Normalise(DecimalValue(digits), Len(value) - Min(d + 1, Len(value)))

\* UnaryOperation(op): the enum member whose value is op.
UnaryOperation(op) ==
    IF op = <<"n","o","t">> THEN "NOT" ELSE "PRINT"

DeclarationNode(span, ident) ==
    [type |-> "Declaration", span |-> span, ident |-> ident]

AssignmentNode(span, ident, expr) ==
    [type |-> "Assignment", span |-> span, ident |-> ident, expr |-> expr]

ValueNode(span, value) ==
    [type |-> "Value", span |-> span, value |-> Float(value)]

BinaryOperationNode(span, left, op, right) ==
    [type |-> "BinaryOperation", span |-> span, left |-> left, op |-> op, right |-> right]

UnaryOperationNode(span, op, operand) ==
    [type |-> "UnaryOperation", span |-> span, op |-> op, operand |-> operand]

ReturnStatementNode(span, expr) ==
    [type |-> "ReturnStatement", span |-> span, expr |-> expr]

CodeBlockNode(span, block) ==
    [type |-> "CodeBlock", span |-> span, block |-> block]

WhileNode(span, cond, block) ==
    [type |-> "While", span |-> span, condition |-> cond, block |-> block]

IdentNode(span, ident) ==
    [type |-> "Ident", span |-> span, ident |-> ident]

FunctionNode(span, name, args, body) ==
    [type |-> "Function", span |-> span, name |-> name, args |-> args, block |-> body]

ExternFunctionNode(span, name, args) ==
    [type |-> "ExternFunction", span |-> span, name |-> name, args |-> args]

FunctionCallNode(span, ident, args) ==
    [type |-> "FunctionCall", span |-> span, ident |-> ident, args |-> args]

(***************************************************************************)
(* Parser (common/front_end/parser.py).                                    *)
(*                                                                         *)
(* A parser state p is [rest, kind, lexeme, err, result]: the Lexer.rest   *)
(* of its lexer, the two components of Parser.token, the ParseError in     *)
(* flight (err.raised) once one was raised, and the value the last parse   *)
(* method returned.  Every parse method maps the state it is called in to  *)
(* the state it returns in.  A                                             *)
(* raised exception unwinds the whole parse: once err.raised every         *)
(* primitive leaves the state alone, no token is accepted, every loop      *)
(* stops and nothing is returned (result is NoNode).  The text of the      *)
(* error (message, source line, caret) is kept as the message only.        *)
(*                                                                         *)
(* A method that goes on after a call is written as the call followed by   *)
(* a definition for the rest of its body, which takes the state p at entry *)
(* (start = self.position is Position(p)) and the states the calls         *)
(* returned.                                                               *)
(***************************************************************************)
NoErr == [raised |-> FALSE]

\* Lexer.position of the parser's lexer
LexerPosition(p) == Len(code) - Len(p.rest)

\* Parser.position (= Lexer.linecol)
Position(p) == linecol_from_position(code, LexerPosition(p))

\* raise ParseError(message, ..., position).  The error also records where the
\* lexer stood (at) and the lookahead kind (token) when it was raised.
Raise(p, message, position) ==
    IF p.err.raised THEN p
    ELSE [p EXCEPT !.err = [raised |-> TRUE, message |-> message,
                            position |-> position, at |-> LexerPosition(p),
                            token |-> p.kind],
                   !.kind = "_ERR", !.lexeme = <<>>,
                   !.result = NoNode]

\* return value, in state p
Ret(p, value) == [p EXCEPT !.result = IF p.err.raised THEN NoNode ELSE value]

\* Parser.__init__(code, incomplete=False)
NewParser ==
    [rest |-> code, kind |-> "_SOI", lexeme |-> <<>>, err |-> NoErr, result |-> NoNode]

\* Parser.peek
Peek(p) == p.kind

\* Parser.is_next
IsNext(p, token) == p.kind = token

\* self.token = next(self.lexer), n being what next(self.lexer) did
Advance(p, n) ==
    CASE n.status = "tok"   -> [p EXCEPT !.kind = n.token[1], !.lexeme = n.token[2],
                                         !.rest = n.rest]
      [] n.status = "stop"  -> [p EXCEPT !.kind = "_EOI", !.lexeme = <<>>, !.rest = n.rest]
      [] n.status = "error" ->
            Raise([p EXCEPT !.rest = n.rest], <<"Cannot lex input code">>,
                  linecol_from_position(code, Len(code) - Len(n.rest)))

\* Parser.eat: the state afterwards (the value it returns is p.lexeme).
Eat(p, token) ==
    IF p.err.raised THEN p
    ELSE IF Peek(p) = token THEN Advance(p, LexerNext(p.rest))
    ELSE IF Peek(p) = "_EOI"
         THEN Raise(p, <<"Unexpected end of file, expecting", token>>, Position(p))
         ELSE Raise(p, <<"Unexpected token", Peek(p), ", expecting", token>>, Position(p))

\* Parser.accept: the Boolean it returns, and the state afterwards.
Accepts(p, token) == p.kind = token

Accept(p, token) == IF IsNext(p, token) THEN Eat(p, token) ELSE p

RECURSIVE parse_function(_), parse_codeblock(_, _), parse_statement(_)
RECURSIVE parse_declaration(_), parse_assignment(_), parse_expression(_)
RECURSIVE parse_expr_add(_), parse_expr_sub(_), parse_expr_mult(_)
RECURSIVE parse_expr_div(_), parse_expr_power(_), parse_function_call(_)
RECURSIVE parse_expr_unary(_), parse_parent_expr(_)
RECURSIVE CommaListLoop(_, _), BlockLoop(_, _), ProgramLoop(_, _)

\* Parser.parse_value
ValueResult(p, q) ==
    Ret(q, ValueNode(Span(Position(p), Position(q)), p.lexeme))

IdentResult(p, q) ==
    Ret(q, IdentNode(Span(Position(p), Position(q)), p.lexeme))

parse_value(p) ==
    IF IsNext(p, "NUMBER") THEN ValueResult(p, Eat(p, "NUMBER"))
    ELSE IF IsNext(p, "IDENT") THEN IdentResult(p, Eat(p, "IDENT"))
    ELSE Raise(p, <<"Syntax error">>, Position(p))

\* self.eat("RIGHT_PARENT"); return e
CloseParent(e) == Ret(Eat(e, "RIGHT_PARENT"), e.result)

\* Parser.parse_parent_expr
parse_parent_expr(p) ==
    IF Accepts(p, "LEFT_PARENT")
    THEN CloseParent(parse_expression(Accept(p, "LEFT_PARENT")))
    ELSE parse_value(p)

\* Parser.parse_expr_unary
UnaryResult(p, operand) ==
    Ret(operand, UnaryOperationNode(Span(Position(p), Position(operand)),
                                    UnaryOperation(p.lexeme), operand.result))

parse_expr_unary(p) ==
    IF IsNext(p, "UNOP")
    THEN UnaryResult(p, parse_function_call(Eat(p, "UNOP")))
    ELSE parse_parent_expr(p)

\* Parser.parse_comma_list: args.append(e), then the while loop
CommaListAppend(args, e) == CommaListLoop(e, Append(args, e.result))

CommaListLoop(p, args) ==
    IF Accepts(p, "COMMA")
    THEN CommaListAppend(args, parse_expression(Accept(p, "COMMA")))
    ELSE Ret(p, args)

parse_comma_list(p, close_token) ==
    IF IsNext(p, close_token) THEN Ret(p, <<>>)
    ELSE CommaListAppend(<<>>, parse_expression(p))

\* Parser.parse_function_call
FunctionCallResult(p, left, args) ==
    LET q == Eat(args, "RIGHT_PARENT")
    IN  Ret(q, FunctionCallNode(Span(Position(p), Position(q)),
                                left.result.ident, args.result))

FunctionCallArgs(p, left, a) ==
    IF left.result.type # "Ident"
    THEN Raise(a, <<"Syntax error">>, Position(a))
    ELSE FunctionCallResult(p, left, parse_comma_list(a, "RIGHT_PARENT"))

FunctionCallRest(p, left) ==
    IF Accepts(left, "LEFT_PARENT")
    THEN FunctionCallArgs(p, left, Accept(left, "LEFT_PARENT"))
    ELSE left

parse_function_call(p) == FunctionCallRest(p, parse_expr_unary(p))

\* return BinaryOperationNode(Span(start, self.position), left, op, right)
BinaryResult(p, left, op, right) ==
    Ret(right, BinaryOperationNode(Span(Position(p), Position(right)),
                                   left.result, op, right.result))

\* Parser.parse_expr_power
ExprPowerRest(p, left) ==
    IF Accepts(left, "BIN_POWER")
    THEN BinaryResult(p, left, "POWER", parse_expr_power(Accept(left, "BIN_POWER")))
    ELSE left

parse_expr_power(p) == ExprPowerRest(p, parse_function_call(p))

\* Parser.parse_expr_div
ExprDivRest(p, left) ==
    IF Accepts(left, "BIN_DIV")
    THEN BinaryResult(p, left, "DIV", parse_expr_mult(Accept(left, "BIN_DIV")))
    ELSE left

parse_expr_div(p) == ExprDivRest(p, parse_expr_power(p))

\* Parser.parse_expr_mult
ExprMultRest(p, left) ==
    IF Accepts(left, "BIN_MULT")
    THEN BinaryResult(p, left, "MULT", parse_expr_mult(Accept(left, "BIN_MULT")))
    ELSE left

parse_expr_mult(p) == ExprMultRest(p, parse_expr_div(p))

\* A subtraction whose right operand is a ExprMult (the left-associative reading).
ExprSubRestMult(p, left) ==
    IF Accepts(left, "BIN_SUB")
    THEN BinaryResult(p, left, "SUB", parse_expr_mult(Accept(left, "BIN_SUB")))
    ELSE left

\* Parser.parse_expr_sub
ExprSubRest(p, left) ==
    IF Accepts(left, "BIN_SUB")
    THEN BinaryResult(p, left, "SUB", parse_expr_add(Accept(left, "BIN_SUB")))
    ELSE left

parse_expr_sub(p) == ExprSubRest(p, parse_expr_mult(p))

\* Parser.parse_expr_add
ExprAddRest(p, left) ==
    IF Accepts(left, "BIN_ADD")
    THEN BinaryResult(p, left, "ADD", parse_expr_add(Accept(left, "BIN_ADD")))
    ELSE left

parse_expr_add(p) == ExprAddRest(p, parse_expr_sub(p))

\* An expression whose leading parenthesised expression is taken as the left
\* operand of an addition.
parse_expression_operand(p) ==
    IF p.err.raised THEN p
    ELSE IF Accepts(p, "LEFT_PARENT")
    THEN ExprAddRest(p, CloseParent(parse_expression(Accept(p, "LEFT_PARENT"))))
    ELSE parse_expr_add(p)

\* Parser.parse_expression
parse_expression(p) ==
    IF p.err.raised THEN p
    ELSE IF Accepts(p, "LEFT_PARENT")
    THEN CloseParent(parse_expression(Accept(p, "LEFT_PARENT")))
    ELSE parse_expr_add(p)

\* Parser.parse_assignment
AssignmentResult(p, left, expr) ==
    Ret(expr, AssignmentNode(Span(Position(p), Position(expr)),
                             left.result.ident, expr.result))

AssignmentTarget(p, left, a) ==
    IF left.result.type # "Ident"
    THEN Raise(a, <<"Syntax error">>, Position(a))
    ELSE AssignmentResult(p, left, parse_expression(a))

AssignmentRest(p, left) ==
    IF Accepts(left, "EQUALS")
    THEN AssignmentTarget(p, left, Accept(left, "EQUALS"))
    ELSE left

parse_assignment(p) == AssignmentRest(p, parse_expression(p))

\* Parser.parse_declaration
DeclarationResult(p, a) ==
    LET q == Eat(a, "IDENT")
    IN  Ret(q, DeclarationNode(Span(Position(p), Position(q)), a.lexeme))

parse_declaration(p) ==
    IF Accepts(p, "KW_VAR")
    THEN DeclarationResult(p, Accept(p, "KW_VAR"))
    ELSE parse_assignment(p)

\* Parser.parse_statement
ReturnResult(p, expr) ==
    Ret(expr, ReturnStatementNode(Span(Position(p), Position(expr)), expr.result))

WhileResult(p, cond, block) ==
    Ret(block, WhileNode(Span(Position(p), Position(block)), cond.result, block.result))

WhileBlock(p, cond) == WhileResult(p, cond, parse_codeblock(cond, FALSE))

parse_statement(p) ==
    IF Accepts(p, "KW_RETURN")
    THEN ReturnResult(p, parse_expression(Accept(p, "KW_RETURN")))
    ELSE IF Accepts(p, "KW_WHILE")
    THEN WhileBlock(p, parse_expression(Accept(p, "KW_WHILE")))
    ELSE parse_declaration(p)

\* gen() of parse_codeblock: the statements yielded so far, in state p.
BlockAppend(block, s) == BlockLoop(s, Append(block, s.result))

BlockLoop(p, block) ==
    IF p.err.raised \/ IsNext(p, "RIGHT_BRACE") THEN Ret(p, block)
    ELSE BlockAppend(block, parse_statement(p))

\* Parser.parse_codeblock
BracedBlock(p, block) ==
    LET q == Eat(block, "RIGHT_BRACE")
    IN  Ret(q, CodeBlockNode(Span(Position(p), Position(q)), block.result))

SingleBlock(p, d) ==
    Ret(d, CodeBlockNode(Span(Position(p), Position(d)), <<d.result>>))

\* A code block that never insists on braces.
parse_codeblock_lenient(p, force) ==
    IF p.err.raised THEN p
    ELSE IF Accepts(p, "LEFT_BRACE")
    THEN BracedBlock(p, BlockLoop(Accept(p, "LEFT_BRACE"), <<>>))
    ELSE SingleBlock(p, parse_declaration(p))

parse_codeblock(p, force) ==
    IF p.err.raised THEN p
    ELSE IF Accepts(p, "LEFT_BRACE")
    THEN BracedBlock(p, BlockLoop(Accept(p, "LEFT_BRACE"), <<>>))
    ELSE IF force
    THEN Raise(p, <<"Code block need braces">>, Position(p))
    ELSE SingleBlock(p, parse_declaration(p))

\* Parser.parse_function
FunctionResult(p, name, args, body) ==
    Ret(body, FunctionNode(Span(Position(p), Position(body)),
                           name, args.result, body.result))

FunctionBody(p, is_extern, name, args, r) ==
    IF ~is_extern
    THEN FunctionResult(p, name, args, parse_codeblock(r, TRUE))
    ELSE Ret(r, ExternFunctionNode(Span(Position(p), Position(r)), name, args.result))

FunctionArgs(p, is_extern, name, args) ==
    FunctionBody(p, is_extern, name, args, Eat(args, "RIGHT_PARENT"))

FunctionName(p, is_extern, f) ==
    FunctionArgs(p, is_extern, f.lexeme,
                 parse_comma_list(Eat(Eat(f, "IDENT"), "LEFT_PARENT"), "RIGHT_PARENT"))

FunctionRest(p, is_extern, e) ==
    IF Accepts(e, "KW_FUN")
    THEN FunctionName(p, is_extern, Accept(e, "KW_FUN"))
    ELSE parse_codeblock(e, FALSE)

parse_function(p) ==
    FunctionRest(p, Accepts(p, "KW_EXTERN"), Accept(p, "KW_EXTERN"))

\* gen() of parse: the top-level entries yielded so far, in state p.
ProgramAppend(block, f) == ProgramLoop(f, Append(block, f.result))

ProgramLoop(p, block) ==
    IF p.err.raised \/ IsNext(p, "_EOI") THEN Ret(p, block)
    ELSE ProgramAppend(block, parse_function(p))

\* Parser.parse
ProgramResult(p, block) ==
    LET q == Eat(block, "_EOI")
    IN  Ret(q, CodeBlockNode(Span(Position(p), Position(q)), block.result))

parse(p) == ProgramResult(p, ProgramLoop(Eat(p, "_SOI"), <<>>))

(***************************************************************************)
(* Traversal (BaseNode.visit and its overrides) with a recording callback: *)
(* the sequence of nodes the callback is called with.                      *)
(***************************************************************************)
visit(n) ==
    CASE n.type = "BinaryOperation" -> <<n.left, n.right, n>>
      [] n.type = "UnaryOperation"  -> <<n.operand, n>>
      [] n.type = "ReturnStatement" -> <<n.expr, n>>
      [] n.type = "CodeBlock"       -> n.block \o <<n>>
      [] n.type = "While"           -> <<n.condition, n.block, n>>
      [] n.type = "Function"        -> n.args \o <<n.block, n>>
      [] n.type = "ExternFunction"  -> n.args \o <<n>>
      [] n.type = "FunctionCall"    -> n.args \o <<n>>
      [] OTHER                      -> <<n>>

(***************************************************************************)
(* Structure of a tree, for stating properties of it.                      *)
(***************************************************************************)
\* The children of a node, in the order of its fields.
Children(n) ==
    CASE n.type = "Assignment"      -> <<n.expr>>
      [] n.type = "BinaryOperation" -> <<n.left, n.right>>
      [] n.type = "UnaryOperation"  -> <<n.operand>>
      [] n.type = "ReturnStatement" -> <<n.expr>>
      [] n.type = "CodeBlock"       -> n.block
      [] n.type = "While"           -> <<n.condition, n.block>>
      [] n.type = "Function"        -> n.args \o <<n.block>>
      [] n.type = "ExternFunction"  -> n.args
      [] n.type = "FunctionCall"    -> n.args
      [] OTHER                      -> <<>>

\* The nodes of the tree rooted at n, children before parents, left to right.
RECURSIVE PostOrder(_), PostOrderAll(_)
PostOrder(n) == PostOrderAll(Children(n)) \o <<n>>
PostOrderAll(ns) ==
    IF Len(ns) = 0 THEN <<>> ELSE PostOrder(Head(ns)) \o PostOrderAll(Tail(ns))

Range(s) == {s[i] : i \in 1..Len(s)}

(***************************************************************************)
(* Inputs.  A source text is the concatenation of a bounded sequence of    *)
(* pieces; each family of texts has its own pieces.                        *)
(***************************************************************************)
RECURSIVE Flatten(_)
Flatten(ps) == IF Len(ps) = 0 THEN <<>> ELSE Head(ps) \o Flatten(Tail(ps))

SeqsUpTo(S, n) == UNION {[1..k -> S] : k \in 0..n}

Texts(S, n) == {Flatten(ps) : ps \in SeqsUpTo(S, n)}

\* Expressions: operands, the two loosest operators, parentheses.
ExprPieces == { <<"1">>, <<"x">>, <<"-">>, <<"+">>, <<"(">>, <<")">> }

\* Layout: statements spread over blanks and lines.
LayoutPieces == { <<"x">>, <<"2">>, <<"=">>, <<" ">>, <<"\n">> }

\* Function definitions: a head, a parameter list, what follows the ")".
FunctionHeads ==
    { <<"f","u","n"," ","f","(">>,
      <<"e","x","t","e","r","n"," ","f","u","n"," ","g","(">> }
ParamPieces == { <<"a">>, <<"b">>, <<"1">>, <<",">>, <<"+">> }
FunctionTails ==
    { <<")">>,
      <<")"," ">>,
      <<")","{","}">>,
      <<")"," ","r","e","t","u","r","n"," ","1">>,
      <<")"," ","{"," ","r","e","t","u","r","n"," ","1"," ","}">>,
      <<")","\n","{","\n","x"," ","="," ","1","\n","}","\n">>,
      <<")","\n","x">>,
      <<")"," ","?">> }

\* Statements inside one braced block.
StatementPieces ==
    { <<"r","e","t","u","r","n"," ">>, <<"w","h","i","l","e"," ">>,
      <<"v","a","r"," ">>, <<"n","o","t"," ">>, <<"x">>, <<"1",".","5","0">>,
      <<"*">>, <<"/">>, <<"*","*">>, <<"(">>, <<")">>, <<",">>, <<"=">>, <<"{","}">> }

ExprInputs == Texts(ExprPieces, MaxPieces)

LayoutInputs == Texts(LayoutPieces, MaxPieces)

FunctionInputs ==
    { h \o a \o t : h \in FunctionHeads, a \in Texts(ParamPieces, MaxInner),
                    t \in FunctionTails }

StatementInputs == { <<"{">> \o b \o <<"}">> : b \in Texts(StatementPieces, MaxInner) }

\* Tokenizer inputs: keywords, identifier tails, literal shapes, operators
\* that share a prefix, blanks, and a character no rule matches.
LexPieces ==
    { <<"v","a","r">>, <<"f","u","n">>, <<"w","h","i","l","e">>,
      <<"r","e","t","u","r","n">>, <<"e","x","t","e","r","n">>, <<"n","o","t">>,
      <<"i","a","b","l","e">>, <<"x">>,
      <<"0","x">>, <<"1","F">>, <<"0","o">>, <<"1","7">>,
      <<"*">>, <<"<">>, <<"=">>, <<" ">>, <<"?">> }

LexInputs == Texts(LexPieces, MaxLexPieces)

\* Position resolver inputs: lines of "a" and blanks.
TextPieces == { <<"a">>, <<" ">>, <<"\n">> }

PositionInputs == Texts(TextPieces, MaxTextLen)

NoLineCol == [line |-> 0, col |-> 0]

(***************************************************************************)
(* The parser and the traversal of its result.                             *)
(***************************************************************************)
Idle ==
    /\ tokens = <<>>
    /\ lexState = "run"
    /\ lcQuery = -1
    /\ lcResult = NoLineCol
    /\ pc = "start"
    /\ tree = NoNode
    /\ perr = NoErr
    /\ visited = NoNode
    /\ log = <<>>

Init ==
    /\ \/ code \in ExprInputs
       \/ code \in LayoutInputs
       \/ code \in FunctionInputs
       \/ code \in StatementInputs
    /\ rest = code
    /\ Idle

\* What a call of parse that returned r leaves: its result or its exception,
\* and the lexer where it stopped.
Returned(r) ==
    /\ tree' = r.result
    /\ perr' = r.err
    /\ rest' = r.rest

\* Parser(code).parse()
Parse ==
    /\ pc = "start"
    /\ Returned(parse(NewParser))
    /\ pc' = "parsed"
    /\ UNCHANGED <<code, tokens, lexState, lcQuery, lcResult, visited, log>>

\* n.visit(callback) on a node n of the parsed tree; callback records its argument
Visit ==
    /\ pc = "parsed"
    /\ ~perr.raised
    /\ \E n \in Range(PostOrder(tree)) :
          /\ visited' = n
          /\ log' = visit(n)
    /\ pc' = "visited"
    /\ UNCHANGED <<code, rest, tokens, lexState, lcQuery, lcResult, tree, perr>>

Next == Parse \/ Visit

Spec == Init /\ [][Next]_vars

\* The same, on the expressions only.
InitExpressions ==
    /\ code \in ExprInputs
    /\ rest = code
    /\ Idle

SpecExpressions == InitExpressions /\ [][Next]_vars

\* The same, on the function definitions only.
InitFunctions ==
    /\ code \in FunctionInputs
    /\ rest = code
    /\ Idle

SpecFunctions == InitFunctions /\ [][Next]_vars

(***************************************************************************)
(* The tokenizer iterated on its own: for token in Lexer(code).            *)
(***************************************************************************)
InitLexer ==
    /\ code \in LexInputs
    /\ rest = code
    /\ Idle

\* next(lexer)
LexerIterate ==
    /\ lexState = "run"
    /\ LET n == LexerNext(rest)
       IN  /\ rest' = n.rest
           /\ tokens' = IF n.status = "tok" THEN Append(tokens, n.token) ELSE tokens
           /\ lexState' = IF n.status = "tok" THEN "run" ELSE n.status
    /\ UNCHANGED <<code, lcQuery, lcResult, pc, tree, perr, visited, log>>

NextLexer == LexerIterate

SpecLexer == InitLexer /\ [][NextLexer]_vars

(***************************************************************************)
(* The position resolver queried on its own.                               *)
(***************************************************************************)
InitPosition ==
    /\ code \in PositionInputs
    /\ rest = code
    /\ Idle

\* Lexer(code).linecol_from_position(position)
LinecolFromPosition ==
    /\ \E position \in 0..Len(code) :
          /\ lcQuery' = position
          /\ lcResult' = linecol_from_position(code, position)
    /\ UNCHANGED <<code, rest, tokens, lexState, pc, tree, perr, visited, log>>

NextPosition == LinecolFromPosition

SpecPosition == InitPosition /\ [][NextPosition]_vars

(***************************************************************************)
(* Vocabulary of the properties.                                           *)
(***************************************************************************)
\* The tokens of code as the tokenizer yields them, each with the offsets of
\* its first character (start) and of the character after its last (end); how
\* the iteration ended ("stop" or "error") and the offset where it ended.
RECURSIVE LexedFrom(_, _)
LexedFrom(r, toks) ==
    LET n == LexerNext(r)
    IN  IF n.status = "tok"
        THEN LexedFrom(n.rest,
                       Append(toks, [kind   |-> n.token[1],
                                     lexeme |-> n.token[2],
                                     start  |-> Len(code) - Len(n.rest) - Len(n.token[2]),
                                     end    |-> Len(code) - Len(n.rest)]))
        ELSE [tokens |-> toks, status |-> n.status, at |-> Len(code) - Len(n.rest)]

Lexed == LexedFrom(code, <<>>)

OperandKinds == {"NUMBER", "IDENT"}

BinaryKinds == {"BIN_POWER", "BIN_MULT", "BIN_DIV", "BIN_ADD", "BIN_SUB"}

\* The line (1-based) holding offset p of text, newlines counted in the
\* offset, and the column (1-based) of p in that line.
TrueLine(text, p) == 1 + Cardinality({i \in 1..p : text[i] = "\n"})

TrueCol(text, p) ==
    LET before == {i \in 1..p : text[i] = "\n"}
    IN  IF before = {} THEN p + 1
        ELSE p - (CHOOSE i \in before : \A j \in before : j <= i) + 1

TruePosition(p) == [line |-> TrueLine(code, p), col |-> TrueCol(code, p)]

\* (line, col) order
LineColLE(a, b) == a.line < b.line \/ (a.line = b.line /\ a.col <= b.col)

Parsed == pc = "parsed"

Succeeded == Parsed /\ ~perr.raised

Nodes == Range(PostOrder(tree))

\* node n is the operand written by token t
IsOperand(n, t) ==
    \/ t.kind = "IDENT" /\ n.type = "Ident" /\ n.ident = t.lexeme
    \/ t.kind = "NUMBER" /\ n.type = "Value" /\ n.value = Float(t.lexeme)

IsBinary(n, op) == n.type = "BinaryOperation" /\ n.op = op

\* The program is one top-level entry holding one statement.
HasSoleStatement ==
    /\ ~perr.raised
    /\ tree.type = "CodeBlock"
    /\ Len(tree.block) = 1
    /\ tree.block[1].type = "CodeBlock"
    /\ Len(tree.block[1].block) = 1

SoleStatement == tree.block[1].block[1]

(***************************************************************************)
(* C1.  Spans of a parsed program.                                         *)
(***************************************************************************)
\* C1: in every program that parses, every CodeBlock's span has start <= end
\* in (line, col) order, and every child's span lies within its parent's span.
C1_SpansNested ==
    Succeeded =>
        \A n \in Nodes :
            /\ n.type = "CodeBlock" => LineColLE(n.span.start, n.span.end)
            /\ \A c \in Range(Children(n)) :
                  /\ LineColLE(n.span.start, c.span.start)
                  /\ LineColLE(c.span.end, n.span.end)

(***************************************************************************)
(* C2.  linecol_from_position.                                             *)
(***************************************************************************)
\* C2: for every text and every offset p in 0..len(text), the result of
\* linecol_from_position(p) is the 1-based line holding p and the 1-based
\* column of p in that line; so line >= 1 and col >= 1.
C2_LinecolIsLineAndColumn ==
    lcQuery >= 0 =>
        /\ lcResult = TruePosition(lcQuery)
        /\ lcResult.line >= 1
        /\ lcResult.col >= 1

(***************************************************************************)
(* C3.  Traversal.                                                         *)
(***************************************************************************)
\* C3: visit(callback) on a node calls the callback on each child, in field
\* order, and then on the node (on a leaf: on the leaf only); visiting the
\* root of a parsed tree reaches every node once, children before parents.
C3_VisitIsPostOrder ==
    pc = "visited" =>
        /\ log = Children(visited) \o <<visited>>
        /\ visited = tree => log = PostOrder(tree)

(***************************************************************************)
(* C4.  A function definition whose body does not open with a brace.       *)
(***************************************************************************)
\* The index of the first ")" among the tokens t, 0 when there is none.
HeaderEnd(t) ==
    LET cl == {i \in 1..Len(t) : t[i].kind = "RIGHT_PARENT"}
    IN  IF cl = {} THEN 0 ELSE CHOOSE i \in cl : \A j \in cl : i <= j

\* The tokens t are "fun" name "(" names separated by commas ")" followed by
\* something other than "{" (or by nothing); k is HeaderEnd(t).
FunctionWithoutBrace(t, k) ==
    /\ k >= 4
    /\ t[1].kind = "KW_FUN" /\ t[2].kind = "IDENT" /\ t[3].kind = "LEFT_PARENT"
    /\ \A i \in 4..(k - 1) :
          t[i].kind = IF (i - 4) % 2 = 0 THEN "IDENT" ELSE "COMMA"
    /\ k > 4 => t[k - 1].kind = "IDENT"
    /\ Len(t) > k => t[k + 1].kind # "LEFT_BRACE"

\* Where the lexer stands once the ")" at index k is eaten: past the token
\* after ")", or where its iteration ended when no token follows.
PastLookahead(L, k) ==
    IF Len(L.tokens) > k THEN L.tokens[k + 1].end ELSE L.at

AssignsToNumber(t) ==
    Len(t) >= 2 /\ t[1].kind = "NUMBER" /\ t[2].kind = "EQUALS"

\* C5: when the left of "=" is no bare identifier, a "Syntax error" is
\* raised, no Assignment is built, and the error carries the position of
\* the "=" token (where it starts or where it ends).
C5_BadTargetRaisesAtEquals ==
    Parsed =>
        LET t == Lexed.tokens
        IN  AssignsToNumber(t) =>
                /\ perr.raised
                /\ perr.message = <<"Syntax error">>
                /\ tree = NoNode
                /\ perr.position \in { TruePosition(t[2].start),
                                       TruePosition(t[2].end) }

(***************************************************************************)
(* C6.  Parameters of a function.                                          *)
(***************************************************************************)
\* C6: in every tree a successful parse returns, every element of the
\* parameter list of a Function or ExternFunction node is an Ident node.
C6_ParametersAreIdents ==
    Succeeded =>
        \A n \in Nodes :
            n.type \in {"Function", "ExternFunction"} =>
                \A i \in 1..Len(n.args) : n.args[i].type = "Ident"

(***************************************************************************)
(* C7.  Hexadecimal and octal literals.                                    *)
(***************************************************************************)
\* code is 0x and hexadecimal digits, or 0o and octal digits.
IsHexOrOctLiteral ==
    Len(code) > 0 /\ (MatchHex(code) = Len(code) \/ MatchOct(code) = Len(code))

\* C7: the tokenizer yields a hexadecimal or octal literal as one NUMBER
\* token whose lexeme is the whole literal.
C7_HexOctIsOneNumber ==
    (lexState # "run" /\ IsHexOrOctLiteral) =>
        /\ lexState = "stop"
        /\ tokens = << <<"NUMBER", code>> >>

(***************************************************************************)
(* C8.  A chain of subtractions.                                           *)
(***************************************************************************)
\* The text lexed as L is a - b - c for operands a, b, c.
IsSubtractionChain(L) ==
    LET t == L.tokens
    IN  /\ L.status = "stop"
        /\ Len(t) = 5
        /\ t[1].kind \in OperandKinds /\ t[2].kind = "BIN_SUB"
        /\ t[3].kind \in OperandKinds /\ t[4].kind = "BIN_SUB"
        /\ t[5].kind \in OperandKinds

\* C8: a - b - c parses to the one statement BinaryOp(a, SUB, BinaryOp(b,
\* SUB, c)), and the whole text is consumed by it.
C8_SubtractionNestsRight ==
    Parsed =>
        LET L == Lexed
            t == L.tokens
        IN  IsSubtractionChain(L) =>
                /\ HasSoleStatement
                /\ rest = <<>>
                /\ IsBinary(SoleStatement, "SUB")
                /\ IsOperand(SoleStatement.left, t[1])
                /\ IsBinary(SoleStatement.right, "SUB")
                /\ IsOperand(SoleStatement.right.left, t[3])
                /\ IsOperand(SoleStatement.right.right, t[5])

\* "1-x-1" was parsed, to a subtraction whose right operand is a subtraction.
C8_Witness ==
    /\ Parsed
    /\ code = <<"1","-","x","-","1">>
    /\ IsSubtractionChain(Lexed)
    /\ HasSoleStatement
    /\ IsBinary(SoleStatement.right, "SUB")

(***************************************************************************)
(* C9.  First rule in order.                                               *)
(***************************************************************************)
Keywords ==
    { <<"UNOP", <<"n","o","t">> >>, <<"KW_VAR", <<"v","a","r">> >>,
      <<"KW_FUN", <<"f","u","n">> >>, <<"KW_WHILE", <<"w","h","i","l","e">> >>,
      <<"KW_RETURN", <<"r","e","t","u","r","n">> >>,
      <<"KW_EXTERN", <<"e","x","t","e","r","n">> >> }

\* The index of the rule named k in the order of the rules.
RuleIndex(k) == CHOOSE i \in 1..Len(TOKENS) : TOKENS[i][1] = k

\* Token t, yielded with text s at the scan position, is that of the first
\* rule in order that matches a prefix of s, and leaves the rest r.
IsFirstRuleToken(t, s, r) ==
    LET n == Match(TOKENS[RuleIndex(t[1])][2], s)
    IN  /\ n > 0
        /\ t[2] = SubSeq(s, 1, n)
        /\ r = Drop(s, n)
        /\ \A j \in 1..(RuleIndex(t[1]) - 1) : Match(TOKENS[j][2], s) = 0
        /\ \A kw \in Keywords : MatchLit(kw[2], s) > 0 => t = kw

\* C9: every token the tokenizer yields is the token of the first rule, in
\* the order of the rules, that matches at the scan position (past any
\* blanks); where the text there starts with the letters of a keyword, the
\* token is that keyword, whatever follows it.
C9_FirstRuleWins ==
    [][ tokens' # tokens =>
          /\ tokens' = Append(tokens, tokens'[Len(tokens')])
          /\ IsFirstRuleToken(tokens'[Len(tokens')],
                              Drop(rest, RunLen(Blank, rest, 1)), rest') ]_vars

\* "variable" was tokenized: the keyword var, then the identifier iable.
C9_Witness ==
    /\ code = <<"v","a","r","i","a","b","l","e">>
    /\ lexState = "stop"
    /\ tokens = << <<"KW_VAR", <<"v","a","r">> >>,
                   <<"IDENT", <<"i","a","b","l","e">> >> >>

(***************************************************************************)
(* C10.  A parenthesised expression opening a statement.                   *)
(***************************************************************************)
\* The tokens t open with "(" operand ")" and a binary operator.
OpensWithParenthesised(t) ==
    /\ Len(t) >= 4
    /\ t[1].kind = "LEFT_PARENT" /\ t[2].kind \in OperandKinds
    /\ t[3].kind = "RIGHT_PARENT" /\ t[4].kind \in BinaryKinds

\* The text lexed as L is operand "+" "(" operand ")".
EndsWithParenthesised(L) ==
    LET t == L.tokens
    IN  /\ L.status = "stop"
        /\ Len(t) = 5
        /\ t[1].kind \in OperandKinds /\ t[2].kind = "BIN_ADD"
        /\ t[3].kind = "LEFT_PARENT" /\ t[4].kind \in OperandKinds
        /\ t[5].kind = "RIGHT_PARENT"

\* C10: a statement "(a) op ..." is rejected with a "Syntax error" raised with
\* the operator as the lookahead, nothing being returned; "a + (b)" parses to
\* the one statement BinaryOp(a, ADD, b).
C10_ParenthesisedIsWholeExpression ==
    Parsed =>
        LET L == Lexed
            t == L.tokens
        IN  /\ OpensWithParenthesised(t) =>
                  /\ perr.raised
                  /\ perr.message = <<"Syntax error">>
                  /\ perr.token = t[4].kind
                  /\ perr.at = t[4].end
                  /\ perr.position = linecol_from_position(code, t[4].end)
                  /\ tree = NoNode
            /\ EndsWithParenthesised(L) =>
                  /\ HasSoleStatement
                  /\ rest = <<>>
                  /\ IsBinary(SoleStatement, "ADD")
                  /\ IsOperand(SoleStatement.left, t[1])
                  /\ IsOperand(SoleStatement.right, t[4])

\* "(1)+1" was parsed: rejected with "+" as the lookahead.
C10_Witness ==
    /\ Parsed
    /\ code = <<"(","1",")","+","1">>
    /\ OpensWithParenthesised(Lexed.tokens)
    /\ perr.raised
    /\ perr.token = "BIN_ADD"
    /\ perr.position = [line |-> 1, col |-> 5]

====
